---- MODULE Spec2Model ----
(***************************************************************************)
(* String distance measures of lingpy/compare/strings.py.                  *)
(*                                                                         *)
(* A sequence is a TLA+ sequence of symbols; a symbol is a one-character   *)
(* string.  Python floats are modelled as exact rationals: a returned      *)
(* value is [tag |-> "ok", num, den] in lowest terms with den > 0, and a   *)
(* call that divides by zero ends in [tag |-> "ZeroDivisionError"].        *)
(* Table cells of the n-gram measures hold multiples of 1/n; the model     *)
(* stores them multiplied by n (the "scale") so that they stay integers.   *)
(***************************************************************************)
EXTENDS Integers, Sequences, FiniteSets, TLC

VARIABLES UNNORM, pc, metric, a, b, frame, result

\* The callers that share the module in one process.
VARIABLES workers

\* The three values a caller keeps of ldn_swap over three sequences.
VARIABLES triangle

\* The locals of xml2nwk.
VARIABLES document, nwk, queue, taxa, newick, newick_string, xpc, numbered

concVars == <<workers>>
triVars == <<triangle>>
xmlVars == <<document, nwk, queue, taxa, newick, newick_string, xpc, numbered>>

vars == <<UNNORM, pc, metric, a, b, frame, result, concVars, triVars, xmlVars>>

\* ------------------------------------------------------------------ bounds
MaxLen == 3

Alphabet == {"a", "b"}

\* Sequences over three symbols are drawn up to a shorter length.
ShortLen == 2

Alphabet3 == Alphabet \cup {"c"}

Seqs ==
  UNION {[1..k -> Alphabet] : k \in 0..MaxLen}
  \cup UNION {[1..k -> Alphabet3] : k \in 0..ShortLen}

Short == UNION {[1..k -> Alphabet3] : k \in 0..ShortLen}
Long == UNION {[1..k -> Alphabet] : k \in 0..MaxLen}

kitten == <<"k", "i", "t", "t", "e", "n">>
sitting == <<"s", "i", "t", "t", "i", "n", "g">>
night == <<"n", "i", "g", "h", "t">>
nacht == <<"n", "a", "c", "h", "t">>

Examples == {<<kitten, sitting>>, <<sitting, kitten>>,
             <<night, nacht>>, <<nacht, night>>}

Inputs == (Long \X Long) \cup (Short \X Short) \cup Examples

\* ------------------------------------------------------------- arithmetic
Min2(x, y) == IF x <= y THEN x ELSE y
Max2(x, y) == IF x >= y THEN x ELSE y
Min3(x, y, z) == Min2(x, Min2(y, z))
Max3(x, y, z) == Max2(x, Max2(y, z))
Abs(x) == IF x < 0 THEN 0 - x ELSE x

RECURSIVE Gcd(_, _)
Gcd(x, y) == IF y = 0 THEN x ELSE Gcd(y, x % y)

ZeroDivisionError == [tag |-> "ZeroDivisionError"]

\* float(p) / float(q): raises on q = 0, else the exact quotient.
Frac(p, q) ==
  IF q = 0 THEN ZeroDivisionError
  ELSE LET g == Gcd(Abs(p), Abs(q))
           s == IF q < 0 THEN 0 - 1 ELSE 1
       IN [tag |-> "ok", num |-> (s * p) \div g, den |-> (s * q) \div g]

IsOk(r) == r.tag = "ok"

\* ------------------------------------------------------- python sequences
\* s[i:j] with 0 <= i: clipped at the end of s.
Slice(s, i, j) == SubSeq(s, i + 1, Min2(j, Len(s)))

Range(s) == {s[i] : i \in DOMAIN s}

\* ---------------------------------------------------------------- n-grams
pad_symbol == "-"

Repeat(x, k) == [i \in 1..k |-> x]

\* list(it.chain(it.chain((pad,)*(n-1), seq), (pad,)*(n-1)))
Padded(seq, n) == Repeat(pad_symbol, n - 1) \o seq \o Repeat(pad_symbol, n - 1)

\* Variant: the window count is one short, count = max(0, len(s) - n).
NGrams_short(seq, n) ==
  LET s == Padded(seq, n)
      count == Max2(0, Len(s) - n)
  IN [i \in 1..count |-> Slice(s, i - 1, i - 1 + n)]

\* count = max(0, len(s) - n + 1); [tuple(s[i:i+n]) for i in range(count)]
NGrams(seq, n) ==
  LET s == Padded(seq, n)
      count == Max2(0, Len(s) - n + 1)
  IN [i \in 1..count |-> Slice(s, i - 1, i - 1 + n)]

\* ----------------------------------------------------------------- tables
\* The nested list m is a sequence of rows; python's m[i][j] is At(m, i, j).
At(m, i, j) == m[i + 1][j + 1]
Put(m, i, j, val) == [m EXCEPT ![i + 1][j + 1] = val]

\* m after the two initialisation loops: la rows of lb zeros, m[i][0] = i,
\* then m[0][j] = j (distance tables, cumulative), or 0 everywhere
\* (similarity tables).
InitTable(la, lb, cumulative, scale) ==
  [r \in 1..la |->
    [c \in 1..lb |->
      IF ~cumulative THEN 0
      ELSE IF r = 1 THEN (c - 1) * scale
      ELSE IF c = 1 THEN (r - 1) * scale ELSE 0]]

\* Local costs and scores of the weighted recurrences, times n.
\* len([k for k in x if k not in y])
NotIn(x, y) == Cardinality({k \in DOMAIN x : x[k] \notin Range(y)})
\* len([k for k in x if k in y])
CountIn(x, y) == Cardinality({k \in DOMAIN x : x[k] \in Range(y)})
\* dis = len([k for k in x if k not in y])/n; if (x != y): s = s + dis.
\* The amount added on the diagonal by the weighted distances, times n.
Dis2(x, y) == IF x # y THEN NotIn(x, y) ELSE 0

\* the number of positions where x and y differ
PosDiff(x, y) == Cardinality({k \in DOMAIN x : x[k] # y[k]})
\* Variant: the positional score counts the differing positions, as the
\* positional distance does.
PosSame_differing(x, y) == Cardinality({k \in DOMAIN x : x[k] # y[k]})

\* the number of positions where x and y agree
PosSame(x, y) == Cardinality({k \in DOMAIN x : x[k] = y[k]})

\* The inner loop body: the new value of m[i][j]; u[i] is python's
\* s_a[i-1] and v[j] is s_b[j-1].
Cell(kind, scale, m, i, j, u, v) ==
  LET x == u[i]
      y == v[j]
      d == At(m, i - 1, j - 1)
      left == At(m, i, j - 1)
      up == At(m, i - 1, j)
  IN CASE kind = "dist1" ->
            Min3(left + scale, up + scale, IF x # y THEN d + scale ELSE d)
       [] kind = "swap" ->
            LET c == Min3(left + scale, up + scale,
                          IF x # y THEN d + scale ELSE d)
            IN IF i > 1 /\ j > 1 /\ u[i] = v[j - 1] /\ u[i - 1] = v[j]
               THEN Min2(c, At(m, i - 2, j - 2) + scale) ELSE c
       [] kind = "dist2" ->
            Min3(left + scale, up + scale, d + Dis2(x, y))
       [] kind = "dist3" ->
            Min3(left + scale, up + scale,
                 IF x # y THEN d + PosDiff(x, y) ELSE d)
       [] kind = "sim1" ->
            IF x = y THEN d + scale ELSE Max2(left, up)
       [] kind = "sim2" -> Max3(left, up, d + CountIn(x, y))
       [] kind = "sim3" -> Max3(left, up, d + PosSame(x, y))

\* for j in range(1,lb): m[i][j] = ...
RECURSIVE FillRow(_, _, _, _, _, _, _)
FillRow(kind, scale, m, i, j, u, v) ==
  IF j >= Len(m[i + 1]) THEN m
  ELSE FillRow(kind, scale, Put(m, i, j, Cell(kind, scale, m, i, j, u, v)),
               i, j + 1, u, v)

\* for i in range(1,la): for j in range(1,lb): m[i][j] = ...
RECURSIVE Fill(_, _, _, _, _, _)
Fill(kind, scale, m, i, u, v) ==
  IF i >= Len(m) THEN m
  ELSE Fill(kind, scale, FillRow(kind, scale, m, i, 1, u, v), i + 1, u, v)

Table(kind, scale, la, lb, u, v) ==
  Fill(kind, scale,
       InitTable(la, lb, kind \in {"dist1", "swap", "dist2", "dist3"}, scale),
       1, u, v)

\* The locals of a finished call and its return value.
Frame(s_a, s_b, m, dicta, dictb, ret) ==
  [s_a |-> s_a, s_b |-> s_b, m |-> m, dicta |-> dicta, dictb |-> dictb,
   ret |-> ret]

\* if UNNORM: return float(m[la][lb]);  return float(m[la][lb])/float(max(la,lb))
DistReturn(m, la, lb, scale, unnorm) ==
  IF unnorm THEN Frac(At(m, la, lb), scale)
  ELSE Frac(At(m, la, lb), scale * Max2(la, lb))

\* Variant: normalized mode returns the similarity m/max, not 1 - m/max.
SimReturn_similarity(m, la, lb, scale, unnorm) ==
  IF unnorm THEN Frac(scale * Max2(la, lb) - At(m, la, lb), scale)
  ELSE Frac(At(m, la, lb), scale * Max2(la, lb))

\* if UNNORM: return float(max(la,lb)) - float(m[la][lb])
\* return 1.0 - (float(m[la][lb]) / float(max(la,lb)))
SimReturn(m, la, lb, scale, unnorm) ==
  IF unnorm THEN Frac(scale * Max2(la, lb) - At(m, la, lb), scale)
  ELSE Frac(scale * Max2(la, lb) - At(m, la, lb), scale * Max2(la, lb))

\* A distance measure over units s_a, s_b with a table of la rows and lb
\* columns; la and lb are decremented before the bottom-right cell is read.
DistMeasure(kind, scale, s_a, s_b, la, lb, unnorm) ==
  LET m == Table(kind, scale, la, lb, s_a, s_b)
  IN Frame(s_a, s_b, m, <<>>, <<>>,
           DistReturn(m, la - 1, lb - 1, scale, unnorm))

SimMeasure(kind, scale, s_a, s_b, la, lb, unnorm) ==
  LET m == Table(kind, scale, la, lb, s_a, s_b)
  IN Frame(s_a, s_b, m, <<>>, <<>>,
           SimReturn(m, la - 1, lb - 1, scale, unnorm))

\* ------------------------------------------------------ matrix measures
\* Variant: ldn also takes the transposition shortcut.
ldn_transposing(x, y, unnorm) ==
  DistMeasure("swap", 1, x, y, Len(x) + 1, Len(y) + 1, unnorm)

ldn(x, y, unnorm) ==
  DistMeasure("dist1", 1, x, y, Len(x) + 1, Len(y) + 1, unnorm)

\* Variant: ldn_swap without the transposition shortcut.
ldn_swap_plain(x, y, unnorm) ==
  DistMeasure("dist1", 1, x, y, Len(x) + 1, Len(y) + 1, unnorm)

\* Variant: ldn_swap over a table whose first row and column stay zero.
ldn_swap_zeroed(x, y, unnorm) ==
  LET la == Len(x) + 1
      lb == Len(y) + 1
      m == Fill("swap", 1, InitTable(la, lb, FALSE, 1), 1, x, y)
  IN Frame(x, y, m, <<>>, <<>>, DistReturn(m, la - 1, lb - 1, 1, unnorm))

ldn_swap(x, y, unnorm) ==
  DistMeasure("swap", 1, x, y, Len(x) + 1, Len(y) + 1, unnorm)

bidist1(x, y, unnorm) ==
  LET s_a == NGrams(x, 2)
      s_b == NGrams(y, 2)
  IN DistMeasure("dist1", 1, s_a, s_b, Len(s_a) + 1, Len(s_b) + 1, unnorm)

tridist1(x, y, unnorm) ==
  LET s_a == NGrams(x, 3)
      s_b == NGrams(y, 3)
  IN DistMeasure("dist1", 1, s_a, s_b, Len(s_a) + 1, Len(s_b) + 1, unnorm)

bidist2(x, y, unnorm) ==
  LET s_a == NGrams(x, 2)
      s_b == NGrams(y, 2)
  IN DistMeasure("dist2", 2, s_a, s_b, Len(s_a), Len(s_b), unnorm)

tridist2(x, y, unnorm) ==
  LET s_a == NGrams(x, 3)
      s_b == NGrams(y, 3)
  IN DistMeasure("dist2", 3, s_a, s_b, Len(s_a), Len(s_b), unnorm)

bidist3(x, y, unnorm) ==
  LET s_a == NGrams(x, 2)
      s_b == NGrams(y, 2)
  IN DistMeasure("dist3", 2, s_a, s_b, Len(s_a), Len(s_b), unnorm)

tridist3(x, y, unnorm) ==
  LET s_a == NGrams(x, 3)
      s_b == NGrams(y, 3)
  IN DistMeasure("dist3", 3, s_a, s_b, Len(s_a), Len(s_b), unnorm)

lcs(x, y, unnorm) ==
  SimMeasure("sim1", 1, x, y, Len(x) + 1, Len(y) + 1, unnorm)

bisim1(x, y, unnorm) ==
  SimMeasure("sim1", 1, NGrams(x, 2), NGrams(y, 2),
             Len(x) + 1, Len(y) + 1, unnorm)

trisim1(x, y, unnorm) ==
  SimMeasure("sim1", 1, NGrams(x, 3), NGrams(y, 3),
             Len(x) + 1, Len(y) + 1, unnorm)

bisim2(x, y, unnorm) ==
  SimMeasure("sim2", 2, NGrams(x, 2), NGrams(y, 2),
             Len(x) + 1, Len(y) + 1, unnorm)

trisim2(x, y, unnorm) ==
  SimMeasure("sim2", 3, NGrams(x, 3), NGrams(y, 3),
             Len(x) + 1, Len(y) + 1, unnorm)

bisim3(x, y, unnorm) ==
  SimMeasure("sim3", 2, NGrams(x, 2), NGrams(y, 2),
             Len(x) + 1, Len(y) + 1, unnorm)

trisim3(x, y, unnorm) ==
  SimMeasure("sim3", 3, NGrams(x, 3), NGrams(y, 3),
             Len(x) + 1, Len(y) + 1, unnorm)

\* ----------------------------------------------------- overlap measures
\* str(x) of a symbol: its characters.
Str(x) == <<x>>

\* ",".join(map(str, s)): the characters of the key string.
RECURSIVE Join(_)
Join(s) ==
  IF Len(s) = 0 THEN <<>>
  ELSE IF Len(s) = 1 THEN Str(s[1])
  ELSE Str(s[1]) \o <<",">> \o Join(Tail(s))

\* The defaultdict(int) after keys[1], keys[2], ... were each counted once.
Dict(keys) ==
  [e \in Range(keys) |-> Cardinality({i \in DOMAIN keys : keys[i] = e})]

RECURSIVE SumMin(_, _, _)
SumMin(es, da, db) ==
  IF es = {} THEN 0
  ELSE LET e == CHOOSE z \in es : TRUE
       IN Min2(da[e], db[e]) + SumMin(es \ {e}, da, db)

\* for entry in dicta: if dictb.has_key(entry): overlap += min(...)
Overlap(da, db) == SumMin(DOMAIN da \cap DOMAIN db, da, db)

\* Variant: the loop runs one index too far, so the last key is a clipped
\* slice.
WindowKeys_overrun(s, w) ==
  [t \in 1..(Len(s) - w + 2) |-> Join(Slice(s, t - 1, t - 1 + w))]

\* keys of the adjacent windows of width w: s[i:i+w] for i in range(len(s)-w+1)
WindowKeys(s, w) ==
  [t \in 1..(Len(s) - w + 1) |-> Join(Slice(s, t - 1, t - 1 + w))]

\* keys [s[i], s[i+2]] for i in range(len(s)-2)
SkipKeys(s) == [t \in 1..(Len(s) - 2) |-> Join(<<s[t], s[t + 2]>>)]

dice(x, y, unnorm) ==
  LET la == Len(x) - 1
      lb == Len(y) - 1
      dicta == Dict(WindowKeys(x, 2))
      dictb == Dict(WindowKeys(y, 2))
      overlap == Overlap(dicta, dictb)
      total == la + lb
  IN Frame(x, y, <<>>, dicta, dictb,
           IF total = 0 THEN Frac(0, 1)
           ELSE IF unnorm THEN Frac(total - 2 * overlap, 1)
           ELSE Frac(total - 2 * overlap, total))

jcd(x, y, unnorm) ==
  LET la == Len(x) - 1
      lb == Len(y) - 1
      dicta == Dict(WindowKeys(x, 2))
      dictb == Dict(WindowKeys(y, 2))
      overlap == Overlap(dicta, dictb)
      total == la + lb - overlap
  IN Frame(x, y, <<>>, dicta, dictb,
           IF total = 0 THEN Frac(0, 1)
           ELSE IF unnorm THEN Frac(total - overlap, 1)
           ELSE Frac(total - overlap, total))

\* keys s[i:i+k] for k = 1..n, for each i = first(t), t in range(count)
MultiKeys(s, count, n, first(_)) ==
  [t \in 1..(count * n) |->
    LET i == first((t - 1) \div n)
        k == ((t - 1) % n) + 1
    IN Join(Slice(s, i, i + k))]

jcdn(x, y, unnorm) ==
  LET la == Len(x) - 1
      lb == Len(y) - 1
      s_a == Padded(x, 3)
      s_b == Padded(y, 3)
      OwnIndex(t) == t
      \* the second loop runs over j but slices s_b[i:i+k], where i keeps
      \* the last value of the first loop
      LastI(t) == Len(s_a) - 2
      dicta == Dict(MultiKeys(s_a, Len(s_a) - 1, 3, OwnIndex))
      dictb == Dict(MultiKeys(s_b, Len(s_b) - 1, 3, LastI))
      overlap == Overlap(dicta, dictb)
      total == la + lb - overlap
  IN Frame(s_a, s_b, <<>>, dicta, dictb,
           IF total = 0 THEN Frac(0, 1)
           ELSE IF unnorm THEN Frac(total - overlap, 1)
           ELSE Frac(total - overlap, total))

prefix(x, y, unnorm) ==
  LET la == Len(x)
      lb == Len(y)
      minl == Min2(la, lb)
      maxl == Max2(la, lb)
      pref == Cardinality({i \in 1..minl : x[i] = y[i]})
  IN Frame(x, y, <<>>, <<>>, <<>>,
           IF unnorm THEN Frac(maxl - pref, 1) ELSE Frac(maxl - pref, maxl))

xdice(x, y, unnorm) ==
  LET la == Len(x) - 2
      lb == Len(y) - 2
      dicta == Dict(SkipKeys(x))
      dictb == Dict(SkipKeys(y))
      overlap == Overlap(dicta, dictb)
      total == la + lb
  IN Frame(x, y, <<>>, dicta, dictb,
           IF total = 0 \/ la < 1 \/ lb < 1 THEN Frac(0, 1)
           ELSE IF unnorm THEN Frac(total - 2 * overlap, 1)
           ELSE Frac(total - 2 * overlap, total))

trigram(x, y, unnorm) ==
  LET la == Len(x) - 2
      lb == Len(y) - 2
      dicta == Dict(WindowKeys(x, 3))
      dictb == Dict(WindowKeys(y, 3))
      overlap == Overlap(dicta, dictb)
      total == la + lb
  IN Frame(x, y, <<>>, dicta, dictb,
           IF total = 0 \/ la < 1 \/ lb < 1 THEN Frac(1, 1)
           ELSE IF unnorm THEN Frac(total - 2 * overlap, 1)
           ELSE Frac(total - 2 * overlap, total))

ident(x, y, unnorm) ==
  LET overlap == IF x = y THEN 1 ELSE 0
  IN Frame(x, y, <<>>, <<>>, <<>>, Frac(1 - overlap, 1))

MatrixMetrics ==
  {"ldn", "ldn_swap", "bidist1", "bidist2", "bidist3", "tridist1",
   "tridist2", "tridist3", "lcs", "bisim1", "bisim2", "bisim3", "trisim1",
   "trisim2", "trisim3"}

OverlapMetrics == {"dice", "jcd", "jcdn", "prefix", "xdice", "trigram", "ident"}

Metrics == MatrixMetrics \cup OverlapMetrics

\* The function of strings.py called name, applied to (x, y).
Apply(name, x, y, unnorm) ==
  CASE name = "ldn" -> ldn(x, y, unnorm)
    [] name = "ldn_swap" -> ldn_swap(x, y, unnorm)
    [] name = "bidist1" -> bidist1(x, y, unnorm)
    [] name = "bidist2" -> bidist2(x, y, unnorm)
    [] name = "bidist3" -> bidist3(x, y, unnorm)
    [] name = "tridist1" -> tridist1(x, y, unnorm)
    [] name = "tridist2" -> tridist2(x, y, unnorm)
    [] name = "tridist3" -> tridist3(x, y, unnorm)
    [] name = "lcs" -> lcs(x, y, unnorm)
    [] name = "bisim1" -> bisim1(x, y, unnorm)
    [] name = "bisim2" -> bisim2(x, y, unnorm)
    [] name = "bisim3" -> bisim3(x, y, unnorm)
    [] name = "trisim1" -> trisim1(x, y, unnorm)
    [] name = "trisim2" -> trisim2(x, y, unnorm)
    [] name = "trisim3" -> trisim3(x, y, unnorm)
    [] name = "dice" -> dice(x, y, unnorm)
    [] name = "jcd" -> jcd(x, y, unnorm)
    [] name = "jcdn" -> jcdn(x, y, unnorm)
    [] name = "prefix" -> prefix(x, y, unnorm)
    [] name = "xdice" -> xdice(x, y, unnorm)
    [] name = "trigram" -> trigram(x, y, unnorm)
    [] name = "ident" -> ident(x, y, unnorm)

\* ---------------------------------------------------------- state machine
NoFrame == Frame(<<>>, <<>>, <<>>, <<>>, <<>>, Frac(0, 1))

\* The threads of one process that import the module.
Workers == {"w1", "w2"}

\* A worker between two calls.
IdleWorker ==
  [pc |-> "idle", want |-> TRUE, metric |-> "none", a |-> <<>>, b |-> <<>>,
   ret |-> Frac(0, 1)]

\* No distances kept.
NoTriangle ==
  [A |-> <<>>, B |-> <<>>, C |-> <<>>, ab |-> Frac(0, 1), bc |-> Frac(0, 1),
   ac |-> Frac(0, 1), filled |-> FALSE]

\* A dictionary without keys.
EmptyDict == [k \in {} |-> <<>>]

Init ==
  /\ UNNORM = TRUE
  /\ pc = "idle"
  /\ metric = "none"
  /\ a = <<>>
  /\ b = <<>>
  /\ frame = NoFrame
  /\ result = Frac(0, 1)
  /\ workers = [w \in Workers |-> IdleWorker]
  /\ triangle = NoTriangle
  /\ document = <<>>
  /\ nwk = EmptyDict
  /\ queue = <<>>
  /\ taxa = <<>>
  /\ newick = EmptyDict
  /\ newick_string = <<>>
  /\ xpc = "idle"
  /\ numbered = EmptyDict

\* A client assigns the module global that selects raw or normalized mode.
SetUNNORM ==
  /\ pc = "idle"
  /\ UNNORM' \in BOOLEAN
  /\ UNCHANGED <<pc, metric, a, b, frame, result>>
  /\ UNCHANGED <<concVars, triVars, xmlVars>>

\* A client calls the function called name on a pair of sequences; the call
\* runs to its return (or to its exception).
Call(name) ==
  \E p \in Inputs :
    LET f == Apply(name, p[1], p[2], UNNORM)
    IN /\ pc' = "done"
       /\ metric' = name
       /\ a' = p[1]
       /\ b' = p[2]
       /\ frame' = f
       /\ result' = f.ret
       /\ UNCHANGED UNNORM
       /\ UNCHANGED <<concVars, triVars, xmlVars>>

Call_ldn == pc = "idle" /\ Call("ldn")
Call_ldn_swap == pc = "idle" /\ Call("ldn_swap")
Call_bidist1 == pc = "idle" /\ Call("bidist1")
Call_bidist2 == pc = "idle" /\ Call("bidist2")
Call_bidist3 == pc = "idle" /\ Call("bidist3")
Call_tridist1 == pc = "idle" /\ Call("tridist1")
Call_tridist2 == pc = "idle" /\ Call("tridist2")
Call_tridist3 == pc = "idle" /\ Call("tridist3")
Call_lcs == pc = "idle" /\ Call("lcs")
Call_bisim1 == pc = "idle" /\ Call("bisim1")
Call_bisim2 == pc = "idle" /\ Call("bisim2")
Call_bisim3 == pc = "idle" /\ Call("bisim3")
Call_trisim1 == pc = "idle" /\ Call("trisim1")
Call_trisim2 == pc = "idle" /\ Call("trisim2")
Call_trisim3 == pc = "idle" /\ Call("trisim3")
Call_dice == pc = "idle" /\ Call("dice")
Call_jcd == pc = "idle" /\ Call("jcd")
Call_jcdn == pc = "idle" /\ Call("jcdn")
Call_prefix == pc = "idle" /\ Call("prefix")
Call_xdice == pc = "idle" /\ Call("xdice")
Call_trigram == pc = "idle" /\ Call("trigram")
Call_ident == pc = "idle" /\ Call("ident")

\* The caller takes the returned value; the next call may start.
Collect ==
  /\ pc = "done"
  /\ pc' = "idle"
  /\ metric' = "none"
  /\ a' = <<>>
  /\ b' = <<>>
  /\ frame' = NoFrame
  /\ result' = Frac(0, 1)
  /\ UNCHANGED UNNORM
  /\ UNCHANGED <<concVars, triVars, xmlVars>>

Next ==
  \/ SetUNNORM
  \/ Call_ldn \/ Call_ldn_swap
  \/ Call_bidist1 \/ Call_bidist2 \/ Call_bidist3
  \/ Call_tridist1 \/ Call_tridist2 \/ Call_tridist3
  \/ Call_lcs
  \/ Call_bisim1 \/ Call_bisim2 \/ Call_bisim3
  \/ Call_trisim1 \/ Call_trisim2 \/ Call_trisim3
  \/ Call_dice \/ Call_jcd \/ Call_jcdn
  \/ Call_prefix \/ Call_xdice \/ Call_trigram \/ Call_ident
  \/ Collect

Spec == Init /\ [][Next]_vars

\* ------------------------------------------------------ concurrent callers
\* The functions a worker calls, and the pairs it calls them on.
ConcMetrics == {"ldn", "lcs", "dice"}
ConcInputs == {<<p, q>> : p \in {<<"a", "b">>, <<"a">>}, q \in {<<"b", "a">>, <<"a", "a", "b">>}}

\* Worker w decides on its next call: the function, the pair and the mode
\* (raw or normalized) it wants the value in.
Request(w) ==
  /\ workers[w].pc = "idle"
  /\ \E name \in ConcMetrics, p \in ConcInputs, want \in BOOLEAN :
       workers' = [workers EXCEPT ![w] =
                     [pc |-> "requested", want |-> want, metric |-> name,
                      a |-> p[1], b |-> p[2], ret |-> Frac(0, 1)]]
  /\ UNCHANGED <<UNNORM, pc, metric, a, b, frame, result, triVars, xmlVars>>

\* Worker w selects its mode the only way the module offers: it assigns the
\* module global.
Configure(w) ==
  /\ workers[w].pc = "requested"
  /\ UNNORM' = workers[w].want
  /\ workers' = [workers EXCEPT ![w].pc = "configured"]
  /\ UNCHANGED <<pc, metric, a, b, frame, result, triVars, xmlVars>>

\* Worker w's call runs: the function reads the global as it is now.
WorkerCall(w) ==
  /\ workers[w].pc = "configured"
  /\ workers' = [workers EXCEPT
                   ![w].pc = "done",
                   ![w].ret = Apply(workers[w].metric, workers[w].a,
                                    workers[w].b, UNNORM).ret]
  /\ UNCHANGED <<UNNORM, pc, metric, a, b, frame, result, triVars, xmlVars>>

\* Worker w takes its value.
WorkerCollect(w) ==
  /\ workers[w].pc = "done"
  /\ workers' = [workers EXCEPT ![w] = IdleWorker]
  /\ UNCHANGED <<UNNORM, pc, metric, a, b, frame, result, triVars, xmlVars>>

NextConc ==
  \/ \E w \in Workers : Request(w)
  \/ \E w \in Workers : Configure(w)
  \/ \E w \in Workers : WorkerCall(w)
  \/ \E w \in Workers : WorkerCollect(w)

SpecConc == Init /\ [][NextConc]_vars

\* --------------------------------------------- ldn_swap over three sequences
\* The sequences over three symbols up to the full length.
Words3 == UNION {[1..k -> Alphabet3] : k \in 0..MaxLen}

\* The sequences over two symbols up to the shorter length.
Pivots == UNION {[1..k -> Alphabet] : k \in 0..ShortLen}

\* A caller in raw mode calls ldn_swap on the three pairs of A, B, C and
\* keeps the three values.
Distances ==
  /\ ~triangle.filled
  /\ UNNORM
  /\ \E A \in Short, B \in Pivots, C \in Words3 :
       triangle' = [A |-> A, B |-> B, C |-> C,
                    ab |-> ldn_swap(A, B, UNNORM).ret,
                    bc |-> ldn_swap(B, C, UNNORM).ret,
                    ac |-> ldn_swap(A, C, UNNORM).ret,
                    filled |-> TRUE]
  /\ UNCHANGED <<UNNORM, pc, metric, a, b, frame, result, concVars, xmlVars>>

\* The caller drops the values.
Discard ==
  /\ triangle.filled
  /\ triangle' = NoTriangle
  /\ UNCHANGED <<UNNORM, pc, metric, a, b, frame, result, concVars, xmlVars>>

NextTriangle == Distances \/ Discard

SpecTriangle == Init /\ [][NextTriangle]_vars

\* ------------------------------------------------------------------ xml2nwk
\* The largest number of nodes of an input tree.
MaxNodes == 5

\* The format loop is followed while the string has at most this many
\* pieces.
MaxString == 40

\* An input tree: node 1 is the root element, document[n] is the node whose
\* <children> element holds node n (0 for the root); the <child> elements of
\* a node are in document order.
Trees ==
  UNION {{t \in [1..N -> 0..(N - 1)] :
            t[1] = 0 /\ \A n \in 2..N : t[n] \in 1..(n - 1)} :
         N \in 1..MaxNodes}

\* The text of the <pri-name> element of each node.
PriNames == <<"A", "B", "C", "D", "E", "F", "G", "H">>

\* childs = [c for c in children[0].childNodes if c.nodeName == 'child']
childs(doc, root) ==
  SelectSeq([i \in 1..Len(doc) |-> i], LAMBDA c : doc[c] = root)

\* max([k for k in nwk if type(k) == int])
MaxKey(d) == CHOOSE k \in DOMAIN d : \A j \in DOMAIN d : j <= k

\* d after d[k] = v.
SetItem(d, k, v) == [j \in DOMAIN d \cup {k} |-> IF j = k THEN v ELSE d[j]]

\* The pieces of a format string: a replacement field {key} or plain text.
Field(key) == [kind |-> "field", val |-> key]
Text(t) == [kind |-> "text", val |-> t]

\* ','.join(children)
RECURSIVE JoinComma(_)
JoinComma(children) ==
  IF Len(children) <= 1 THEN children
  ELSE <<Head(children), Text(",")>> \o JoinComma(Tail(children))

\* string.format(**d): one pass that replaces every field by its entry.
RECURSIVE Format(_, _)
Format(string, d) ==
  IF string = <<>> THEN <<>>
  ELSE (IF Head(string).kind = "field" THEN d[Head(string).val]
        ELSE <<Head(string)>>) \o Format(Tail(string), d)

\* The keys format() looks up in d.
Fields(string) ==
  {string[i].val : i \in {j \in DOMAIN string : string[j].kind = "field"}}

\* Lines 33-52: the document is parsed and the traversal is set up.
Parse ==
  /\ xpc = "idle"
  /\ \E doc \in Trees : document' = doc
  /\ nwk' = [k \in {0} |-> <<>>]
  /\ queue' = << <<1, 0>> >>
  /\ taxa' = <<>>
  /\ numbered' = [n \in {1} |-> 0]
  /\ xpc' = "traverse"
  /\ UNCHANGED <<newick, newick_string>>
  /\ UNCHANGED <<UNNORM, pc, metric, a, b, frame, result, concVars, triVars>>

\* Lines 53-85: one pass of the while loop. The entries of nwk are kept as
\* the text str() makes of them; numbered records the index each node was
\* queued with.
Pop ==
  /\ xpc = "traverse"
  /\ queue # <<>>
  /\ LET root == queue[Len(queue)][1]
         idx == queue[Len(queue)][2]
         rest == SubSeq(queue, 1, Len(queue) - 1)
         max_idx == MaxKey(nwk)
         nwk1 == IF idx \in DOMAIN nwk THEN nwk ELSE SetItem(nwk, idx, <<>>)
         cs == childs(document, root)
         name == PriNames[root]
     IN IF cs # <<>>
        THEN /\ queue' = rest \o [i \in 1..Len(cs) |-> <<cs[i], max_idx + i>>]
             /\ nwk' = [nwk1 EXCEPT ![idx] =
                         @ \o [i \in 1..Len(cs) |-> ToString(max_idx + i)]]
             /\ numbered' =
                  [n \in DOMAIN numbered \cup Range(cs) |->
                    IF n \in Range(cs)
                    THEN max_idx + CHOOSE i \in 1..Len(cs) : cs[i] = n
                    ELSE numbered[n]]
             /\ taxa' = taxa
        ELSE /\ queue' = rest
             /\ nwk' = SetItem(nwk1, idx, <<name>>)
             /\ taxa' = Append(taxa, name)
             /\ numbered' = numbered
  /\ UNCHANGED <<document, newick, newick_string, xpc>>
  /\ UNCHANGED <<UNNORM, pc, metric, a, b, frame, result, concVars, triVars>>

\* Lines 91-108: the queue is empty; the format dictionary is built from
\* nwk[0] .. nwk[len(nwk)-1] and the taxa, and the string starts as "{x_0};".
Convert ==
  /\ xpc = "traverse"
  /\ queue = <<>>
  /\ LET n == Cardinality(DOMAIN nwk)
         entry(i) ==
           LET children == [c \in 1..Len(nwk[i]) |-> Field("x_" \o nwk[i][c])]
           IN IF Len(children) > 1
              THEN <<Text("(")>> \o JoinComma(children) \o <<Text(")")>>
              ELSE <<children[1]>>
         keys == {"x_" \o ToString(i) : i \in 0..(n - 1)}
                   \cup {"x_" \o taxa[t] : t \in DOMAIN taxa}
     IN IF \E i \in 0..(n - 1) : i \notin DOMAIN nwk
        THEN /\ xpc' = "KeyError"
             /\ UNCHANGED <<newick, newick_string>>
        ELSE /\ newick' =
                  [key \in keys |->
                    IF \E i \in 0..(n - 1) : key = "x_" \o ToString(i)
                    THEN entry(CHOOSE i \in 0..(n - 1) :
                                 key = "x_" \o ToString(i))
                    ELSE <<Text(CHOOSE t \in Range(taxa) : key = "x_" \o t)>>]
             /\ newick_string' = <<Field("x_0"), Text(";")>>
             /\ xpc' = "format"
  /\ UNCHANGED <<document, nwk, queue, taxa, numbered>>
  /\ UNCHANGED <<UNNORM, pc, metric, a, b, frame, result, concVars, triVars>>

\* Lines 113-120: one pass of the while True loop.
FormatStep ==
  /\ xpc = "format"
  /\ Len(newick_string) <= MaxString
  /\ IF \E key \in Fields(newick_string) : key \notin DOMAIN newick
     THEN xpc' = "KeyError" /\ UNCHANGED newick_string
     ELSE LET formatted == Format(newick_string, newick)
          IN IF formatted = newick_string
             THEN xpc' = "returned" /\ UNCHANGED newick_string
             ELSE xpc' = xpc /\ newick_string' = formatted
  /\ UNCHANGED <<document, nwk, queue, taxa, newick, numbered>>
  /\ UNCHANGED <<UNNORM, pc, metric, a, b, frame, result, concVars, triVars>>

\* Lines 122-129: the string is returned (or the exception leaves the
\* function); the locals are gone.
Return ==
  /\ xpc \in {"returned", "KeyError"}
  /\ document' = <<>>
  /\ nwk' = EmptyDict
  /\ queue' = <<>>
  /\ taxa' = <<>>
  /\ newick' = EmptyDict
  /\ newick_string' = <<>>
  /\ numbered' = EmptyDict
  /\ xpc' = "idle"
  /\ UNCHANGED <<UNNORM, pc, metric, a, b, frame, result, concVars, triVars>>

NextXml == Parse \/ Pop \/ Convert \/ FormatStep \/ Return

SpecXml == Init /\ [][NextXml]_vars

\* ============================================================= properties
Returned == pc = "done"
Zero == Frac(0, 1)
Bounded == a \in Seqs /\ b \in Seqs

\* C1: every measure is symmetric: the value returned for (a, b) is the
\* value the same function returns for (b, a), in raw and in normalized mode.
C1_Symmetric == Returned => result = Apply(metric, b, a, UNNORM).ret

\* C2: in normalized mode every call returns a value in [0,1], and in raw
\* mode a value >= 0 (a call that raises returns no such value).
C2_NormalizationBound ==
  Returned =>
    /\ IsOk(result)
    /\ result.num >= 0
    /\ ~UNNORM => result.num <= result.den

\* C3: in raw mode every matrix-based measure of a sequence with itself is 0.
C3_Identity ==
  (Returned /\ metric \in MatrixMetrics /\ UNNORM /\ a = b) => result = Zero

C3_Witness ==
  /\ Returned /\ metric = "bisim3" /\ UNNORM
  /\ a = b /\ Len(a) >= 2 /\ result = Zero

\* The strings one insertion, deletion or substitution away from s, over
\* the symbols of syms.
OneEdit(s, syms) ==
  {SubSeq(s, 1, i - 1) \o SubSeq(s, i + 1, Len(s)) : i \in 1..Len(s)}
  \cup {[s EXCEPT ![i] = c] : i \in 1..Len(s), c \in syms}
  \cup {SubSeq(s, 1, i) \o <<c>> \o SubSeq(s, i + 1, Len(s)) :
          i \in 0..Len(s), c \in syms}

\* The strings at most k edits away from the strings of S, none longer
\* than cap.
RECURSIVE Ball(_, _, _, _)
Ball(S, k, syms, cap) ==
  IF k = 0 THEN S
  ELSE Ball(S \cup {t \in UNION {OneEdit(s, syms) : s \in S} : Len(t) <= cap},
            k - 1, syms, cap)

\* The least number of single-symbol edits that turn x into y.
MinEdits(x, y) ==
  LET syms == Range(x) \cup Range(y)
      cap == Max2(Len(x), Len(y)) + 1
  IN CHOOSE k \in 0..(Len(x) + Len(y)) :
       /\ y \in Ball({x}, k, syms, cap)
       /\ \A h \in 0..(k - 1) : y \notin Ball({x}, h, syms, cap)

\* C4: in raw mode ldn returns the least number of single-symbol
\* insertions, deletions and substitutions that turn a into b, and
\* ldn("kitten", "sitting") is 3.
C4_Levenshtein ==
  (Returned /\ metric = "ldn" /\ UNNORM) =>
    /\ Bounded => result = Frac(MinEdits(a, b), 1)
    /\ (a = kitten /\ b = sitting) => result = Frac(3, 1)

C4_Witness ==
  /\ Returned /\ metric = "ldn" /\ UNNORM
  /\ a = <<"a", "b">> /\ b = <<"b", "a", "a">> /\ result = Frac(2, 1)

\* The least cost of an edit script that turns x into y reading both left to
\* right, where a step keeps a symbol (0), inserts, deletes or substitutes
\* one symbol (1) or swaps two adjacent symbols (1) and no step touches a
\* symbol that an earlier step has produced.
RECURSIVE RestrictedEdits(_, _)
RestrictedEdits(x, y) ==
  IF Len(x) = 0 THEN Len(y)
  ELSE IF Len(y) = 0 THEN Len(x)
  ELSE LET del == RestrictedEdits(Tail(x), y) + 1
           ins == RestrictedEdits(x, Tail(y)) + 1
           sub == RestrictedEdits(Tail(x), Tail(y))
                    + (IF x[1] = y[1] THEN 0 ELSE 1)
           basic == Min3(del, ins, sub)
       IN IF Len(x) >= 2 /\ Len(y) >= 2 /\ x[1] = y[2] /\ x[2] = y[1]
          THEN Min2(basic, RestrictedEdits(Tail(Tail(x)), Tail(Tail(y))) + 1)
          ELSE basic

\* C5: in raw mode ldn_swap returns the restricted Damerau distance of a and
\* b; ldn_swap("ab", "ba") is 1 while ldn("ab", "ba") is 2.
C5_Damerau ==
  /\ (Returned /\ metric = "ldn_swap" /\ UNNORM) =>
       /\ Bounded => result = Frac(RestrictedEdits(a, b), 1)
       /\ (a = <<"a", "b">> /\ b = <<"b", "a">>) => result = Frac(1, 1)
  /\ (Returned /\ metric = "ldn" /\ UNNORM
        /\ a = <<"a", "b">> /\ b = <<"b", "a">>) => result = Frac(2, 1)

C5_Witness ==
  /\ Returned /\ metric = "ldn_swap" /\ UNNORM
  /\ a = <<"a", "b", "a">> /\ b = <<"b", "a", "b">> /\ result = Frac(2, 1)

\* The subsequences of s.
RECURSIVE Subseqs(_)
Subseqs(s) ==
  IF Len(s) = 0 THEN {<<>>}
  ELSE LET r == Subseqs(Tail(s)) IN r \cup {<<s[1]>> \o t : t \in r}

\* The length of a longest common subsequence of x and y.
LcsLen(x, y) ==
  LET common == Subseqs(x) \cap Subseqs(y)
  IN CHOOSE k \in 0..Len(x) :
       /\ \E t \in common : Len(t) = k
       /\ \A t \in common : Len(t) <= k

\* C6: lcs returns max(|a|,|b|) minus the length of a longest common
\* subsequence in raw mode, and that value divided by max(|a|,|b|) in
\* normalized mode when a and b are not both empty.
C6_Lcs ==
  (Returned /\ metric = "lcs") =>
    LET maxl == Max2(Len(a), Len(b))
        raw == maxl - LcsLen(a, b)
    IN IF UNNORM THEN result = Frac(raw, 1)
       ELSE maxl # 0 => result = Frac(raw, maxl)

C6_Witness ==
  /\ Returned /\ metric = "lcs" /\ ~UNNORM
  /\ a = <<"a", "b", "a">> /\ b = <<"b", "b", "a">> /\ result = Frac(1, 3)

\* The adjacent pairs of s, without padding.
Bigrams(s) == [i \in 1..(Len(s) - 1) |-> <<s[i], s[i + 1]>>]
Occurrences(grams, g) == Cardinality({i \in DOMAIN grams : grams[i] = g})

RECURSIVE SharedCount(_, _, _)
SharedCount(gs, ga, gb) ==
  IF gs = {} THEN 0
  ELSE LET g == CHOOSE z \in gs : TRUE
       IN Min2(Occurrences(ga, g), Occurrences(gb, g))
            + SharedCount(gs \ {g}, ga, gb)

BigramOverlap(x, y) ==
  SharedCount(Range(Bigrams(x)) \cap Range(Bigrams(y)), Bigrams(x), Bigrams(y))

\* C7: with total = (|a|-1)+(|b|-1) and overlap the sum of min(count in a,
\* count in b) over the bigrams of both, dice returns total - 2*overlap in
\* raw mode and 1 - 2*overlap/total in normalized mode whenever total # 0;
\* dice("night", "nacht") is 6 in raw mode.
C7_Dice ==
  (Returned /\ metric = "dice") =>
    LET total == (Len(a) - 1) + (Len(b) - 1)
        overlap == BigramOverlap(a, b)
    IN /\ total # 0 =>
            result = IF UNNORM THEN Frac(total - 2 * overlap, 1)
                     ELSE Frac(total - 2 * overlap, total)
       /\ (UNNORM /\ a = night /\ b = nacht) => result = Frac(6, 1)

C7_Witness ==
  /\ Returned /\ metric = "dice" /\ ~UNNORM
  /\ a = <<"a", "b", "a">> /\ b = <<"a", "b", "b">> /\ result = Frac(1, 2)

\* C8: dice and jcd of two sequences of at most one symbol, and xdice and
\* trigram of two sequences of at most two symbols, return 0 in both modes.
C8_Degenerate ==
  Returned =>
    /\ (metric \in {"dice", "jcd"} /\ Len(a) - 1 <= 0 /\ Len(b) - 1 <= 0)
         => result = Zero
    /\ (metric \in {"xdice", "trigram"} /\ Len(a) - 2 <= 0 /\ Len(b) - 2 <= 0)
         => result = Zero

\* C9: a normalized-mode call of a matrix-based measure or of prefix on two
\* empty sequences returns 0 and raises nothing.
C9_BothEmpty ==
  (Returned /\ metric \in MatrixMetrics \cup {"prefix"} /\ ~UNNORM
     /\ a = <<>> /\ b = <<>>) => result = Zero

\* The q-th element of seq padded with n-1 pad symbols on each side.
PaddedAt(seq, n, q) ==
  IF q <= n - 1 \/ q > n - 1 + Len(seq) THEN "-" ELSE seq[q - (n - 1)]

\* seq has the n-grams units: Len(seq) + n - 1 of them, the k-th holding the
\* n elements of the padded sequence from position k on.
IsNGramsOf(units, seq, n) ==
  /\ Len(units) = Len(seq) + n - 1
  /\ \A k \in 1..Len(units) :
       /\ Len(units[k]) = n
       /\ \A q \in 1..n : units[k][q] = PaddedAt(seq, n, k + q - 1)

BigramMetrics ==
  {"bidist1", "bidist2", "bidist3", "bisim1", "bisim2", "bisim3"}
TrigramMetrics ==
  {"tridist1", "tridist2", "tridist3", "trisim1", "trisim2", "trisim3"}

\* C10: the units a bigram (trigram) measure extracts from a sequence of
\* length L are its L + n - 1 n-grams, in order, n = 2 (3).
C10_NGrams ==
  Returned =>
    /\ metric \in BigramMetrics =>
         IsNGramsOf(frame.s_a, a, 2) /\ IsNGramsOf(frame.s_b, b, 2)
    /\ metric \in TrigramMetrics =>
         IsNGramsOf(frame.s_a, a, 3) /\ IsNGramsOf(frame.s_b, b, 3)

C10_Witness ==
  /\ Returned /\ metric = "tridist1"
  /\ a = <<>> /\ b = <<"a", "b">>
  /\ frame.s_a = <<<<"-", "-", "-">>, <<"-", "-", "-">>>>
  /\ Len(frame.s_b) = 4
  /\ frame.s_b[2] = <<"-", "a", "b">>

\* The length of the longest shared leading run of x and y.
LeadingRun(x, y) ==
  LET minl == Min2(Len(x), Len(y))
  IN CHOOSE k \in 0..minl :
       /\ \A i \in 1..k : x[i] = y[i]
       /\ k = minl \/ x[k + 1] # y[k + 1]

\* C12: in raw mode prefix returns max(|a|,|b|) - k, k the length of the
\* longest shared leading run; agreements after the first disagreement are
\* not counted.
C12_Prefix ==
  (Returned /\ metric = "prefix" /\ UNNORM) =>
    result = Frac(Max2(Len(a), Len(b)) - LeadingRun(a, b), 1)

\* C13: the local cost that bidist2 and tridist2 add on the diagonal for two
\* n-grams is symmetric, and is 0 exactly when the n-grams are equal.
C13_LocalCost ==
  (Returned /\ metric \in {"bidist2", "tridist2"}) =>
    \A i \in DOMAIN frame.s_a, j \in DOMAIN frame.s_b :
      LET x == frame.s_a[i]
          y == frame.s_b[j]
      IN /\ Dis2(x, y) = Dis2(y, x)
         /\ Dis2(x, y) = 0 <=> x = y

\* C14: the table of a matrix-based n-gram measure has (|s_a|+1) rows of
\* (|s_b|+1) cells, s_a and s_b the extracted n-grams, so that its
\* bottom-right cell, the one read, is cell (|s_a|, |s_b|).
C14_TableSize ==
  (Returned /\ metric \in BigramMetrics \cup TrigramMetrics) =>
    /\ Len(frame.m) = Len(frame.s_a) + 1
    /\ \A r \in DOMAIN frame.m : Len(frame.m[r]) = Len(frame.s_b) + 1

SelfIndex(t) == t

\* The multiset of the 1- to 3-symbol windows that start at each index but
\* the last of the padded sequence s.
WindowsOf(s) == Dict(MultiKeys(s, Len(s) - 1, 3, SelfIndex))

\* C15: jcdn builds the multiset of b from the windows of padded b alone,
\* as it builds the multiset of a from the windows of padded a.
C15_Independent ==
  (Returned /\ metric = "jcdn") =>
    /\ frame.dicta = WindowsOf(frame.s_a)
    /\ frame.dictb = WindowsOf(frame.s_b)

\* C11: no shared mutable state: in every interleaving of the workers'
\* actions, a finished call returned the value its own inputs determine
\* (the function, A, B and the mode the caller asked for), whatever the other
\* workers did to the process-wide flag.
C11_NoSharedState ==
  \A w \in Workers :
    workers[w].pc = "done" =>
      workers[w].ret = Apply(workers[w].metric, workers[w].a, workers[w].b,
                             workers[w].want).ret

\* C17 as stated: raw ldn_swap satisfies the triangle inequality,
\* ldn_swap(A,C) <= ldn_swap(A,B) + ldn_swap(B,C).
C17_Triangle ==
  triangle.filled => triangle.ac.num <= triangle.ab.num + triangle.bc.num

\* C17: raw ldn_swap values are whole numbers and satisfy the triangle
\* inequality up to a factor of two,
\* ldn_swap(A,C) <= 2 * (ldn_swap(A,B) + ldn_swap(B,C)).
C17_RelaxedTriangle ==
  triangle.filled =>
    /\ \A r \in {triangle.ab, triangle.bc, triangle.ac} : IsOk(r) /\ r.den = 1
    /\ triangle.ac.num <= 2 * (triangle.ab.num + triangle.bc.num)

\* ba -> ab -> acb: one transposition, then one insertion, but ba -> acb
\* costs three, since an insertion between two transposed symbols is not
\* allowed.
C17_Witness ==
  /\ triangle.filled
  /\ triangle.A = <<"b", "a">>
  /\ triangle.B = <<"a", "b">>
  /\ triangle.C = <<"a", "c", "b">>
  /\ triangle.ab.num = 1
  /\ triangle.bc.num = 1
  /\ triangle.ac.num = 3

\* The nodes of the input tree without <child> elements.
Leaves == {n \in DOMAIN document : childs(document, n) = <<>>}

\* C16: xml2nwk numbers the nodes uniquely: at every step of the traversal
\* no two nodes that were given an index (processed or still queued) share
\* it and no child list holds its own node's index, and the returned Newick
\* string holds every leaf name of the input tree exactly once.
C16_UniqueNumbering ==
  /\ \A n1 \in DOMAIN numbered, n2 \in DOMAIN numbered :
       n1 # n2 => numbered[n1] # numbered[n2]
  /\ \A k \in DOMAIN nwk : ToString(k) \notin Range(nwk[k])
  /\ xpc = "returned" =>
       \A n \in Leaves :
         Cardinality({i \in DOMAIN newick_string :
                        newick_string[i] = Text(PriNames[n])}) = 1

====
